---- MODULE Spec2Model ----
(***************************************************************************)
(* A model of package gormutils (theplant/gormutils):                      *)
(*   - Transact (dbutils.go): a unit of work inside a transaction, with    *)
(*     panic recovery and commit / rollback in a deferred function;        *)
(*   - AutoMigrate, Drop, Truncate, ResetDB (migrate.go and its            *)
(*     near-duplicate file): ordered schema sync / destruction;            *)
(*   - EnsureForeignKey, EnsureConstraint, EnsureIndex (dbutils.go): DDL   *)
(*     helpers that swallow the database's "already exists" error.         *)
(* The database and the ORM are the environment: their outcomes are        *)
(* inputs chosen with \E, their effects on the catalog are modelled as far *)
(* as the helpers observe them.                                            *)
(***************************************************************************)
EXTENDS Integers, Sequences, FiniteSets, TLC

VARIABLES
    txLog,        \* Transact: one record per finished call of Transact
    existing,     \* migrate: the tables that exist in the database
    rows,         \* migrate: the existing tables that hold rows
    mig,          \* migrate: the record of the last orchestrator call
    constraints,  \* DDL: the named constraints, <<relation, name, definition>>
    indexes,      \* DDL: the named indexes, <<name, definition>>
    foreignKeys,  \* DDL: the foreign keys, <<relation, constraint name>>
    ddl           \* DDL: the record of the last helper call

vars == <<txLog, existing, rows, mig, constraints, indexes, foreignKeys, ddl>>

txVars == <<txLog>>
migVars == <<existing, rows, mig>>
ddlVars == <<constraints, indexes, foreignKeys, ddl>>

(***************************************************************************)
(* Go values as far as Transact tells them apart: nil, an error value (an  *)
(* identity and a message), a string, an int.                              *)
(***************************************************************************)
Nil == [kind |-> "nil", id |-> "", s |-> "", n |-> 0]

ErrorValue(id, msg) == [kind |-> "error", id |-> id, s |-> msg, n |-> 0]

StringValue(str) == [kind |-> "string", id |-> "", s |-> str, n |-> 0]

IntValue(i) == [kind |-> "int", id |-> "", s |-> "", n |-> i]

\* How many calls of Transact a behaviour holds.
MaxCalls == 2

\* The errors a unit of work, Commit or Rollback can return.
ErrWork == ErrorValue("errWork", "work failed")
ErrOther == ErrorValue("errOther", "other failure")
ErrCommit == ErrorValue("errCommit", "commit failed")
ErrRollback == ErrorValue("errRollback", "rollback failed")

\* The payloads a unit of work can panic with.
Payloads == {ErrWork, StringValue("boom"), IntValue(42), IntValue(0), Nil}

\* What f does: return a value (nil or an error) or panic with a payload.
Outcomes ==
    [kind : {"return"}, val : {Nil, ErrWork, ErrOther}]
        \cup [kind : {"panic"}, val : Payloads]

\* fmt's %+v of a value.
Format(v) ==
    CASE v.kind = "string" -> v.s
      [] v.kind = "int" -> ToString(v.n)
      [] v.kind = "error" -> v.s
      [] OTHER -> "<nil>"

\* fmt.Errorf("%+v", r): a new error whose message is the formatted payload.
Errorf(r) == ErrorValue("fmt.Errorf", Format(r))

\* What panic(nil) hands to recover: nil with GODEBUG panicnil=1 (the
\* default of a main module whose go directive is older than 1.21, and of
\* every toolchain before 1.21), a *runtime.PanicNilError otherwise.
PanicNilError ==
    ErrorValue("runtime.PanicNilError", "panic called with nil argument (obsolete)")

\* recover() in the deferred function: the payload of the panic in flight,
\* nil when f returned.
Recover(f, panicnil) ==
    IF f.kind = "panic"
    THEN IF f.val = Nil /\ ~panicnil THEN PanicNilError ELSE f.val
    ELSE Nil

\* tx := db.Begin(); err = f(tx): the named result is assigned only when f
\* returns.  calls are the calls made on the transaction.
RunF(f) ==
    [err |-> IF f.kind = "return" THEN f.val ELSE Nil,
     panicking |-> f.kind = "panic",
     calls |-> <<"Begin">>,
     log |-> << >>]

\* Lines 94-102: recover() ends the panic; a non-nil payload becomes err.
AfterRecover(st, r) ==
    IF r # Nil
    THEN LET e == IF r.kind = "error" THEN r ELSE Errorf(r)
         IN [st EXCEPT !.err = e,
                       !.panicking = FALSE,
                       !.log = Append(Append(@, e.s), "stack")]
    ELSE [st EXCEPT !.panicking = FALSE]

\* A plausible slip: no else, Commit runs after the Rollback too.
FinishNoElse(st, commitRes, rollbackRes) ==
    LET st1 == IF st.err # Nil
               THEN [st EXCEPT !.calls = Append(@, "Rollback")]
               ELSE st
    IN [st1 EXCEPT !.calls = Append(@, "Commit"), !.err = commitRes]

\* A plausible slip: a failing Rollback replaces the error being returned.
FinishRollbackMasks(st, commitRes, rollbackRes) ==
    IF st.err # Nil
    THEN [st EXCEPT !.calls = Append(@, "Rollback"),
                    !.err = IF rollbackRes # Nil THEN rollbackRes ELSE @]
    ELSE [st EXCEPT !.calls = Append(@, "Commit"), !.err = commitRes]

\* A plausible slip: the result of Commit is dropped.
FinishCommitDropped(st, commitRes, rollbackRes) ==
    IF st.err # Nil
    THEN [st EXCEPT !.calls = Append(@, "Rollback")]
    ELSE [st EXCEPT !.calls = Append(@, "Commit")]

\* Lines 104-110: roll back on an error (a failing rollback is only logged),
\* commit otherwise and return what Commit returned.
Finish(st, commitRes, rollbackRes) ==
    IF st.err # Nil
    THEN [st EXCEPT !.calls = Append(@, "Rollback"),
                    !.log = IF rollbackRes # Nil
                            THEN Append(@, "Rollback Error:")
                            ELSE @]
    ELSE [st EXCEPT !.calls = Append(@, "Commit"), !.err = commitRes]

\* Transact(db, f): the record of one call.
Transact(f, commitRes, rollbackRes, panicnil) ==
    LET st0 == RunF(f)
        st1 == AfterRecover(st0, Recover(f, panicnil))
        st2 == Finish(st1, commitRes, rollbackRes)
    IN [f |-> f,
        commitRes |-> commitRes,
        rollbackRes |-> rollbackRes,
        calls |-> st2.calls,
        log |-> st2.log,
        ret |-> st2.err,
        propagated |-> st2.panicking]

TransactCall ==
    /\ Len(txLog) < MaxCalls
    /\ \E f \in Outcomes, commitRes \in {Nil, ErrCommit},
          rollbackRes \in {Nil, ErrRollback}, panicnil \in BOOLEAN :
           txLog' = Append(txLog, Transact(f, commitRes, rollbackRes, panicnil))
    /\ UNCHANGED <<migVars, ddlVars>>


--------------------------------------------------------------------------
(***************************************************************************)
(* The migration orchestrator.  A world w is the database (existing, rows) *)
(* with the record of the ORM calls made so far, each with its result.     *)
(* env names, per kind of call, the table on which the database fails.     *)
(***************************************************************************)
Tables == {"A", "B", "C"}

\* The tables whose type implements Migratable (has an AfterMigrate method).
Migratable == {"B", "C"}

\* The longest table list passed to the orchestrator.
MaxLen == 3

TableLists == UNION {[1..n -> Tables] : n \in 0..MaxLen}

NoErr == <<"nil", "">>

MayFail == Tables \cup {"none"}

Envs == [sync : MayFail, hook : MayFail, destroy : MayFail]

Called(w, kind, t, err) ==
    [w EXCEPT !.calls = Append(@, [kind |-> kind, table |-> t, err |-> err]),
              !.err = err]

\* db.AutoMigrate(table): creates the table when it is missing.
DbAutoMigrate(w, t, env) ==
    IF env.sync = t
    THEN Called(w, "AutoMigrate", t, <<"AutoMigrate", t>>)
    ELSE Called([w EXCEPT !.existing = @ \cup {t}], "AutoMigrate", t, NoErr)

\* migratable.AfterMigrate(db): the table's own hook.
AfterMigrate(w, t, env) ==
    IF env.hook = t
    THEN Called(w, "AfterMigrate", t, <<"AfterMigrate", t>>)
    ELSE Called(w, "AfterMigrate", t, NoErr)

\* db.DropTableIfExists(table): removes the table with its rows.
DropTableIfExists(w, t, env) ==
    IF env.destroy = t
    THEN Called(w, "DropTableIfExists", t, <<"DropTableIfExists", t>>)
    ELSE Called([w EXCEPT !.existing = @ \ {t}, !.rows = @ \ {t}],
                "DropTableIfExists", t, NoErr)

\* db.Exec(`TRUNCATE TABLE ` + name): empties the table, which must exist.
TruncateTable(w, t, env) ==
    IF env.destroy = t \/ t \notin w.existing
    THEN Called(w, "TruncateTable", t, <<"TruncateTable", t>>)
    ELSE Called([w EXCEPT !.rows = @ \ {t}], "TruncateTable", t, NoErr)

\* A plausible slip: a failing sync or hook is logged and the loop goes on.
RECURSIVE AutoMigrateKeepsGoing(_, _, _, _)
AutoMigrateKeepsGoing(w, tables, i, env) ==
    IF i > Len(tables)
    THEN w
    ELSE LET t == tables[i]
             w1 == DbAutoMigrate(w, t, env)
             w2 == IF t \in Migratable THEN AfterMigrate(w1, t, env) ELSE w1
         IN AutoMigrateKeepsGoing(w2, tables, i + 1, env)

\* AutoMigrate's loop from the i-th table on; the world it returns holds the
\* returned error in err.
RECURSIVE AutoMigrateFrom(_, _, _, _)
AutoMigrateFrom(w, tables, i, env) ==
    IF i > Len(tables)
    THEN [w EXCEPT !.err = NoErr]
    ELSE LET t == tables[i]
             w1 == DbAutoMigrate(w, t, env)
         IN IF w1.err # NoErr
            THEN w1
            ELSE IF t \in Migratable
                 THEN LET w2 == AfterMigrate(w1, t, env)
                      IN IF w2.err # NoErr
                         THEN w2
                         ELSE AutoMigrateFrom(w2, tables, i + 1, env)
                 ELSE AutoMigrateFrom(w1, tables, i + 1, env)

AutoMigrate(w, tables, env) == AutoMigrateFrom(w, tables, 1, env)

\* The near-duplicate file's AutoMigrate: the same text.
RECURSIVE AutoMigrateFrom_part000(_, _, _, _)
AutoMigrateFrom_part000(w, tables, i, env) ==
    IF i > Len(tables)
    THEN [w EXCEPT !.err = NoErr]
    ELSE LET t == tables[i]
             w1 == DbAutoMigrate(w, t, env)
         IN IF w1.err # NoErr
            THEN w1
            ELSE IF t \in Migratable
                 THEN LET w2 == AfterMigrate(w1, t, env)
                      IN IF w2.err # NoErr
                         THEN w2
                         ELSE AutoMigrateFrom_part000(w2, tables, i + 1, env)
                 ELSE AutoMigrateFrom_part000(w1, tables, i + 1, env)

AutoMigrate_part000(w, tables, env) == AutoMigrateFrom_part000(w, tables, 1, env)

\* A plausible slip: the loop takes tables[i], the forward order.
RECURSIVE DropForward(_, _, _, _)
DropForward(w, tables, i, env) ==
    IF i >= Len(tables)
    THEN [w EXCEPT !.err = NoErr]
    ELSE LET w1 == DropTableIfExists(w, tables[i + 1], env)
         IN IF w1.err # NoErr THEN w1 ELSE DropForward(w1, tables, i + 1, env)

\* Drop's loop, i the 0-based index of `for i := range tables`: the table is
\* tables[len-i-1], here 1-based.
RECURSIVE DropFrom(_, _, _, _)
DropFrom(w, tables, i, env) ==
    IF i >= Len(tables)
    THEN [w EXCEPT !.err = NoErr]
    ELSE LET w1 == DropTableIfExists(w, tables[Len(tables) - i], env)
         IN IF w1.err # NoErr THEN w1 ELSE DropFrom(w1, tables, i + 1, env)

Drop(w, tables, env) == DropFrom(w, tables, 0, env)

\* migrate.go's Truncate: TRUNCATE TABLE on each table, in reverse.
RECURSIVE TruncateFrom(_, _, _, _)
TruncateFrom(w, tables, i, env) ==
    IF i >= Len(tables)
    THEN [w EXCEPT !.err = NoErr]
    ELSE LET w1 == TruncateTable(w, tables[Len(tables) - i], env)
         IN IF w1.err # NoErr THEN w1 ELSE TruncateFrom(w1, tables, i + 1, env)

Truncate(w, tables, env) == TruncateFrom(w, tables, 0, env)

\* The near-duplicate file's Truncate: DropTableIfExists on each table, in
\* reverse.
RECURSIVE TruncateFrom_part000(_, _, _, _)
TruncateFrom_part000(w, tables, i, env) ==
    IF i >= Len(tables)
    THEN [w EXCEPT !.err = NoErr]
    ELSE LET w1 == DropTableIfExists(w, tables[Len(tables) - i], env)
         IN IF w1.err # NoErr
            THEN w1
            ELSE TruncateFrom_part000(w1, tables, i + 1, env)

Truncate_part000(w, tables, env) == TruncateFrom_part000(w, tables, 0, env)

\* A plausible slip: the error of Drop is dropped and the migration runs.
ResetDBIgnoresDrop(w, tables, env) ==
    AutoMigrate(Drop(w, tables, env), tables, env)

\* migrate.go's ResetDB: Drop, then AutoMigrate unless Drop failed.
ResetDB(w, tables, env) ==
    LET w1 == Drop(w, tables, env)
    IN IF w1.err # NoErr THEN w1 ELSE AutoMigrate(w1, tables, env)

\* The near-duplicate file's ResetDB: its Truncate, then AutoMigrate.
ResetDB_part000(w, tables, env) ==
    LET w1 == Truncate_part000(w, tables, env)
    IN IF w1.err # NoErr THEN w1 ELSE AutoMigrate_part000(w1, tables, env)

World == [existing |-> existing, rows |-> rows, calls |-> << >>, err |-> NoErr]

\* The package keeps nothing between calls and the database starts in any
\* state, so a behaviour is one call: no call was made yet.
Idle == mig.op = "none"

\* The effect of one orchestrator call that ended in world w.
Returned(op, file, tables, env, w) ==
    /\ existing' = w.existing
    /\ rows' = w.rows
    /\ mig' = [op |-> op, file |-> file, tables |-> tables, env |-> env,
               calls |-> w.calls, ret |-> w.err,
               before |-> existing, rowsBefore |-> rows]
    /\ UNCHANGED <<txVars, ddlVars>>

AutoMigrateCall ==
    /\ Idle
    /\ \E tables \in TableLists, env \in Envs :
           Returned("AutoMigrate", "migrate.go", tables, env,
                    AutoMigrate(World, tables, env))

AutoMigrateCall_part000 ==
    /\ Idle
    /\ \E tables \in TableLists, env \in Envs :
           Returned("AutoMigrate", "part_000", tables, env,
                    AutoMigrate_part000(World, tables, env))

DropCall ==
    /\ Idle
    /\ \E tables \in TableLists, env \in Envs :
           Returned("Drop", "migrate.go", tables, env, Drop(World, tables, env))

TruncateCall ==
    /\ Idle
    /\ \E tables \in TableLists, env \in Envs :
           Returned("Truncate", "migrate.go", tables, env,
                    Truncate(World, tables, env))

TruncateCall_part000 ==
    /\ Idle
    /\ \E tables \in TableLists, env \in Envs :
           Returned("Truncate", "part_000", tables, env,
                    Truncate_part000(World, tables, env))

ResetDBCall ==
    /\ Idle
    /\ \E tables \in TableLists, env \in Envs :
           Returned("ResetDB", "migrate.go", tables, env,
                    ResetDB(World, tables, env))

ResetDBCall_part000 ==
    /\ Idle
    /\ \E tables \in TableLists, env \in Envs :
           Returned("ResetDB", "part_000", tables, env,
                    ResetDB_part000(World, tables, env))

NoCall ==
    [op |-> "none", file |-> "", tables |-> << >>,
     env |-> [sync |-> "none", hook |-> "none", destroy |-> "none"],
     calls |-> << >>, ret |-> NoErr, before |-> {}, rowsBefore |-> {}]

InitTransact ==
    /\ txLog = << >>
    /\ existing = {}
    /\ rows = {}
    /\ mig = NoCall
    /\ constraints = {}
    /\ indexes = {}
    /\ foreignKeys = {}
    /\ ddl = [op |-> "none"]

NextTransact == TransactCall

SpecTransact == InitTransact /\ [][NextTransact]_vars

\* The caller's database is in any state: each table missing, empty or
\* holding rows.
InitMigrate ==
    /\ txLog = << >>
    /\ existing \in SUBSET Tables
    /\ rows \in SUBSET existing
    /\ mig = NoCall
    /\ constraints = {}
    /\ indexes = {}
    /\ foreignKeys = {}
    /\ ddl = [op |-> "none"]

NextMigrate ==
    \/ AutoMigrateCall
    \/ AutoMigrateCall_part000
    \/ DropCall
    \/ TruncateCall
    \/ TruncateCall_part000
    \/ ResetDBCall
    \/ ResetDBCall_part000

SpecMigrate == InitMigrate /\ [][NextMigrate]_vars

--------------------------------------------------------------------------
(***************************************************************************)
(* The DDL helpers.  The database is PostgreSQL behind lib/pq: a statement *)
(* that adds a constraint, an index or a foreign key under a name already  *)
(* taken fails with the engine's "already exists" message, which names the *)
(* object and not its definition.  Error messages are strings, nil is      *)
(* NoError.                                                                *)
(***************************************************************************)
NoError == "<nil>"

\* scope.TableName() of the model passed to the helpers.
Relation == "orders"

\* What the caller passes as sourceTable: the model's table, or another name.
SourceTables == {"orders", "order"}

Names == {"chk_qty", "idx_code"}

Defs == {"CHECK (qty > 0)", "CHECK (qty > 1)"}

IndexDefs == {"orders (code)", "orders (code, qty)"}

Columns == {"user_id"}

\* The referenced table of a foreign key, as a sequence of tokens: a name, or
\* one of the characters the key matcher and the key name tell apart.
RefTables ==
    {<<"users", " ", "(", "id", ")">>,
     <<"users", "(", "id", ")">>,
     <<"items", " ", "(", "sku", ")">>}

Actions == {"CASCADE", "RESTRICT"}

\* The errors of the database that are no "already exists".
DbFaults == {"none", "pq: deadlock detected"}

RECURSIVE Flatten(_)
Flatten(toks) == IF toks = << >> THEN "" ELSE Head(toks) \o Flatten(Tail(toks))

Separators == {"_", " ", "(", ")", ","}

\* The key name gorm's AddForeignKey gives the constraint:
\* <table>_<field>_<dest>_foreign with every run of characters that are no
\* letters replaced by one underscore.
RECURSIVE Collapse(_)
Collapse(toks) ==
    IF toks = << >>
    THEN ""
    ELSE IF Head(toks) \in Separators
         THEN IF Len(toks) > 1 /\ toks[2] \in Separators
              THEN Collapse(Tail(toks))
              ELSE "_" \o Collapse(Tail(toks))
         ELSE Head(toks) \o Collapse(Tail(toks))

GormKeyName(rel, column, table) ==
    Collapse(<<rel, "_", column, "_">> \o table \o <<"_", "foreign">>)

PqConstraintExists(name, rel) ==
    "pq: constraint \"" \o name \o "\" for relation \"" \o rel
        \o "\" already exists"

PqRelationExists(name) == "pq: relation \"" \o name \o "\" already exists"

\* db.Model(model).AddForeignKey(column, table, onDelete, onUpdate).Error
AddForeignKey(fks, rel, column, table, onDelete, onUpdate, fault) ==
    LET key == GormKeyName(rel, column, table)
    IN IF fault # "none"
       THEN [fks |-> fks, err |-> fault]
       ELSE IF \E fk \in fks : fk[1] = rel /\ fk[2] = key
            THEN [fks |-> fks, err |-> PqConstraintExists(key, rel)]
            ELSE [fks |-> fks \cup {<<rel, key, column, table, onDelete, onUpdate>>},
                  err |-> NoError]

\* db.Exec(ALTER TABLE <rel> ADD CONSTRAINT <name> <constraint>).Error
ExecAddConstraint(cs, rel, name, constraint, fault) ==
    IF fault # "none"
    THEN [cs |-> cs, err |-> fault]
    ELSE IF \E c \in cs : c[1] = rel /\ c[2] = name
         THEN [cs |-> cs, err |-> PqConstraintExists(name, rel)]
         ELSE [cs |-> cs \cup {<<rel, name, constraint>>}, err |-> NoError]

\* db.Exec(CREATE [UNIQUE] INDEX <name> ON <constraint>).Error
ExecCreateIndex(ixs, name, constraint, unique, fault) ==
    IF fault # "none"
    THEN [ixs |-> ixs, err |-> fault]
    ELSE IF \E x \in ixs : x[1] = name
         THEN [ixs |-> ixs, err |-> PqRelationExists(name)]
         ELSE [ixs |-> ixs \cup {<<name, constraint, unique>>}, err |-> NoError]

\* A plausible slip: the optional space before the parenthesis is not part of
\* the pattern.
MatchOpenNoSpace(s, p) ==
    IF p <= Len(s) /\ s[p] = "(" /\ p + 1 <= Len(s) /\ s[p + 1] # ")"
    THEN p
    ELSE 0

\* keyMatcher " ?\(([^)]+)\)?" at position p of s: the position of the
\* parenthesis of the match that starts at p, 0 when none starts there.
MatchOpen(s, p) ==
    IF p + 2 <= Len(s) /\ s[p] = " " /\ s[p + 1] = "(" /\ s[p + 2] # ")"
    THEN p + 1
    ELSE IF p + 1 <= Len(s) /\ s[p] = "(" /\ s[p + 1] # ")"
         THEN p
         ELSE 0

\* The last position of the group ([^)]+) that opens after position q.
GroupEnd(s, q) ==
    CHOOSE e \in (q + 1)..Len(s) :
        /\ \A j \in (q + 1)..e : s[j] # ")"
        /\ e = Len(s) \/ s[e + 1] = ")"

\* keyMatcher.ReplaceAllString(s, "_${1}") from position p on.
RECURSIVE ReplaceAllFrom(_, _)
ReplaceAllFrom(s, p) ==
    IF p > Len(s)
    THEN ""
    ELSE LET q == MatchOpen(s, p)
         IN IF q = 0
            THEN s[p] \o ReplaceAllFrom(s, p + 1)
            ELSE LET e == GroupEnd(s, q)
                     next == IF e < Len(s) THEN e + 2 ELSE e + 1
                 IN "_" \o Flatten(SubSeq(s, q + 1, e))
                        \o ReplaceAllFrom(s, next)

\* The message EnsureForeignKey expects of an existing constraint.
ForeignKeyExpectedMsg(sourceTable, column, table) ==
    LET tableFragment == ReplaceAllFrom(table, 1)
    IN "pq: constraint \"" \o sourceTable \o "_" \o column \o "_"
           \o tableFragment \o "_foreign\" for relation \"" \o sourceTable
           \o "\" already exists"

\* if err != nil { if err.Error() == expectedMsg { log } else { return err } }
\* return nil
Swallow(err, expectedMsg) ==
    IF err # NoError /\ err # expectedMsg THEN err ELSE NoError

EnsureForeignKey ==
    \E sourceTable \in SourceTables, column \in Columns, table \in RefTables,
       onDelete \in Actions, onUpdate \in Actions, fault \in DbFaults :
        LET r == AddForeignKey(foreignKeys, Relation, column, table,
                               onDelete, onUpdate, fault)
            expectedMsg == ForeignKeyExpectedMsg(sourceTable, column, table)
        IN /\ foreignKeys' = r.fks
           /\ ddl' = [op |-> "EnsureForeignKey",
                      sourceTable |-> sourceTable,
                      table |-> table,
                      fault |-> fault,
                      existed |-> <<Relation, GormKeyName(Relation, column, table),
                                    column, table, onDelete, onUpdate>>
                                      \in foreignKeys,
                      dbErr |-> r.err,
                      expectedMsg |-> expectedMsg,
                      ret |-> Swallow(r.err, expectedMsg)]
           /\ UNCHANGED <<constraints, indexes, txVars, migVars>>

\* A plausible slip: the quoted table name is put in the expected message.
ConstraintExpectedMsgQuoted(name, rel) ==
    "pq: constraint \"" \o name \o "\" for relation \"\"" \o rel
        \o "\"\" already exists"

\* The message EnsureConstraint expects of an existing constraint.
ConstraintExpectedMsg(name, rel) ==
    "pq: constraint \"" \o name \o "\" for relation \"" \o rel
        \o "\" already exists"

\* The message EnsureIndex expects of an existing index.
IndexExpectedMsg(name) == "pq: relation \"" \o name \o "\" already exists"

EnsureConstraint ==
    \E name \in Names, constraint \in Defs, fault \in DbFaults :
        LET r == ExecAddConstraint(constraints, Relation, name, constraint, fault)
            expectedMsg == ConstraintExpectedMsg(name, Relation)
        IN /\ constraints' = r.cs
           /\ ddl' = [op |-> "EnsureConstraint",
                      name |-> name,
                      fault |-> fault,
                      nameExisted |-> \E c \in constraints :
                                          c[1] = Relation /\ c[2] = name,
                      existed |-> <<Relation, name, constraint>> \in constraints,
                      dbErr |-> r.err,
                      expectedMsg |-> expectedMsg,
                      ret |-> Swallow(r.err, expectedMsg)]
           /\ UNCHANGED <<indexes, foreignKeys, txVars, migVars>>

EnsureIndex ==
    \E name \in Names, constraint \in IndexDefs, unique \in BOOLEAN,
       fault \in DbFaults :
        LET r == ExecCreateIndex(indexes, name, constraint, unique, fault)
            expectedMsg == IndexExpectedMsg(name)
        IN /\ indexes' = r.ixs
           /\ ddl' = [op |-> "EnsureIndex",
                      name |-> name,
                      fault |-> fault,
                      nameExisted |-> \E x \in indexes : x[1] = name,
                      existed |-> <<name, constraint, unique>> \in indexes,
                      dbErr |-> r.err,
                      expectedMsg |-> expectedMsg,
                      ret |-> Swallow(r.err, expectedMsg)]
           /\ UNCHANGED <<constraints, foreignKeys, txVars, migVars>>

InitDDL ==
    /\ txLog = << >>
    /\ existing = {}
    /\ rows = {}
    /\ mig = NoCall
    /\ constraints = {}
    /\ indexes = {}
    /\ foreignKeys = {}
    /\ ddl = [op |-> "none"]

\* The helpers work on separate parts of the catalog: the foreign keys are
\* explored on their own, the constraints and indexes together.
NextDDL ==
    \/ EnsureConstraint
    \/ EnsureIndex

SpecDDL == InitDDL /\ [][NextDDL]_vars

NextForeignKey == EnsureForeignKey

SpecForeignKey == InitDDL /\ [][NextForeignKey]_vars

--------------------------------------------------------------------------
Failed(c) == c.err # NoErr

IsSync(c) == c.kind = "AutoMigrate"

IsCreate(c) == c.kind \in {"AutoMigrate", "AfterMigrate"}

IsDestroy(c) == c.kind \in {"DropTableIfExists", "TruncateTable"}

\* The calls are over the list in forward order: schema syncs of a prefix of
\* the list, each hook right after the successful sync of its own Migratable
\* table, and a hook after every such sync.
ForwardCreation(calls, tables) ==
    LET syncs == SelectSeq(calls, IsSync)
    IN /\ \A k \in DOMAIN calls : IsCreate(calls[k])
       /\ Len(syncs) <= Len(tables)
       /\ \A k \in DOMAIN syncs : syncs[k].table = tables[k]
       /\ \A k \in DOMAIN calls :
              calls[k].kind = "AfterMigrate"
                  => /\ k > 1
                     /\ calls[k].table \in Migratable
                     /\ calls[k - 1] = [kind |-> "AutoMigrate",
                                        table |-> calls[k].table,
                                        err |-> NoErr]
       /\ \A k \in DOMAIN calls :
              (IsSync(calls[k]) /\ ~Failed(calls[k])
                   /\ calls[k].table \in Migratable)
                  => /\ k < Len(calls)
                     /\ calls[k + 1].kind = "AfterMigrate"
                     /\ calls[k + 1].table = calls[k].table

\* The calls are destructive calls of one kind over the list in reverse
\* order, one per table, from the last table on.
ReverseDestruction(calls, tables) ==
    /\ Len(calls) <= Len(tables)
    /\ \A k \in DOMAIN calls :
           /\ IsDestroy(calls[k])
           /\ calls[k].kind = calls[1].kind
           /\ calls[k].table = tables[Len(tables) - k + 1]

\* No call follows a failed one.
FailFast(calls) == \A k \in DOMAIN calls : Failed(calls[k]) => k = Len(calls)

LastFailed(calls) == calls # << >> /\ Failed(calls[Len(calls)])

\* C2: AutoMigrate syncs the tables in the given order, runs the hook of a
\* Migratable table right after its successful sync and before the next
\* table, stops at the first failing sync or hook and returns exactly that
\* error; without a failure every table is synced and nil is returned.
C2_AutoMigrateForwardFailFast ==
    mig.op = "AutoMigrate"
        => /\ ForwardCreation(mig.calls, mig.tables)
           /\ FailFast(mig.calls)
           /\ IF LastFailed(mig.calls)
              THEN mig.ret = mig.calls[Len(mig.calls)].err
              ELSE /\ mig.ret = NoErr
                   /\ Len(SelectSeq(mig.calls, IsSync)) = Len(mig.tables)

C2_Witness ==
    /\ mig.op = "AutoMigrate"
    /\ mig.tables = <<"A", "B", "C">>
    /\ mig.ret = <<"AfterMigrate", "C">>
    /\ Len(mig.calls) = 5

\* C3: Drop and Truncate issue one destructive call per table in the reverse
\* order of the list, stop at the first failing call and return its error.
C3_DestroyReverseFailFast ==
    mig.op \in {"Drop", "Truncate"}
        => /\ ReverseDestruction(mig.calls, mig.tables)
           /\ FailFast(mig.calls)
           /\ IF LastFailed(mig.calls)
              THEN mig.ret = mig.calls[Len(mig.calls)].err
              ELSE /\ mig.ret = NoErr
                   /\ Len(mig.calls) = Len(mig.tables)

C3_Witness ==
    /\ mig.op \in {"Drop", "Truncate"}
    /\ mig.tables = <<"A", "B", "C">>
    /\ Len(mig.calls) = 2
    /\ mig.calls[1].table = "C"
    /\ mig.calls[2].table = "B"
    /\ mig.ret = mig.calls[2].err
    /\ mig.ret # NoErr

\* C4: ResetDB (both variants) makes all its destruction calls, in reverse
\* list order, before any creation call, makes the creation calls in forward
\* order, and after a failed destruction call returns that error without any
\* creation call.
C4_ResetDBDestroysThenCreates ==
    mig.op = "ResetDB"
        => LET destroys == SelectSeq(mig.calls, IsDestroy)
               creates == SelectSeq(mig.calls, IsCreate)
           IN /\ mig.calls = destroys \o creates
              /\ ReverseDestruction(destroys, mig.tables)
              /\ ForwardCreation(creates, mig.tables)
              /\ FailFast(destroys)
              /\ creates # << >> => Len(destroys) = Len(mig.tables)
              /\ LastFailed(destroys)
                     => /\ creates = << >>
                        /\ mig.ret = destroys[Len(destroys)].err

C4_Witness ==
    /\ mig.op = "ResetDB"
    /\ mig.tables = <<"A", "B">>
    /\ mig.ret = NoErr
    /\ Len(mig.calls) = 5

\* C10: a successful Truncate (of either file) leaves the set of existing
\* tables as it was, and after a successful ResetDB of the truncating variant
\* every table that existed still exists.
C10_TruncateKeepsTables ==
    /\ (mig.op = "Truncate" /\ mig.ret = NoErr) => existing = mig.before
    /\ (mig.op = "ResetDB" /\ mig.file = "part_000" /\ mig.ret = NoErr)
           => mig.before \subseteq existing

\* What does hold of the code: C10 for migrate.go's Truncate.
C10_TruncateTableKeepsTables ==
    (mig.op = "Truncate" /\ mig.file = "migrate.go")
        => /\ existing = mig.before
           /\ mig.ret = NoErr => rows = mig.rowsBefore \ {mig.tables[k] : k \in DOMAIN mig.tables}

--------------------------------------------------------------------------
EndsTx(c) == c \in {"Commit", "Rollback"}

\* C1: every call of Transact calls exactly one of Commit and Rollback on its
\* transaction, exactly once, whether f returns nil, returns an error or
\* panics.
C1_ExactlyOneCommitOrRollback ==
    \A i \in DOMAIN txLog :
        /\ Len(SelectSeq(txLog[i].calls, EndsTx)) = 1
        /\ txLog[i].calls[1] = "Begin"
        /\ ~txLog[i].propagated

C1_Witness ==
    /\ \E i \in DOMAIN txLog : txLog[i].f.kind = "panic" /\ txLog[i].f.val # Nil
    /\ \E i \in DOMAIN txLog : txLog[i].f.kind = "return" /\ txLog[i].f.val # Nil

\* C5: when f returns a non-nil error e the transaction is rolled back,
\* Commit is not called and Transact returns e, also when Rollback fails.
C5_ErrorRolledBackAndReturned ==
    \A i \in DOMAIN txLog :
        (txLog[i].f.kind = "return" /\ txLog[i].f.val # Nil)
            => /\ txLog[i].calls = <<"Begin", "Rollback">>
               /\ txLog[i].ret = txLog[i].f.val

C5_Witness ==
    \E i \in DOMAIN txLog :
        /\ txLog[i].f = [kind |-> "return", val |-> ErrWork]
        /\ txLog[i].rollbackRes = ErrRollback
        /\ txLog[i].ret = ErrWork

\* C6: a panic of f always becomes a non-nil returned error and a rollback,
\* for every payload: an error payload is returned as is, any other payload
\* as an error whose message is the formatted payload; the panic does not
\* propagate.
C6_PanicAlwaysRollsBack ==
    \A i \in DOMAIN txLog :
        txLog[i].f.kind = "panic"
            => /\ txLog[i].ret # Nil
               /\ txLog[i].calls = <<"Begin", "Rollback">>
               /\ txLog[i].f.val.kind = "error" => txLog[i].ret = txLog[i].f.val
               /\ txLog[i].f.val.kind \in {"string", "int"}
                      => txLog[i].ret.s = Format(txLog[i].f.val)
               /\ ~txLog[i].propagated

\* What does hold of the code: the statement of C6 for every payload but nil.
C6_NonNilPanicRollsBack ==
    \A i \in DOMAIN txLog :
        (txLog[i].f.kind = "panic" /\ txLog[i].f.val # Nil)
            => /\ txLog[i].ret # Nil
               /\ txLog[i].calls = <<"Begin", "Rollback">>
               /\ txLog[i].f.val.kind = "error" => txLog[i].ret = txLog[i].f.val
               /\ txLog[i].f.val.kind \in {"string", "int"}
                      => txLog[i].ret.s = Format(txLog[i].f.val)
               /\ ~txLog[i].propagated

\* C7: when f returns nil, Commit is called once, Rollback never, and
\* Transact returns what Commit returned.
C7_SuccessCommits ==
    \A i \in DOMAIN txLog :
        txLog[i].f = [kind |-> "return", val |-> Nil]
            => /\ txLog[i].calls = <<"Begin", "Commit">>
               /\ txLog[i].ret = txLog[i].commitRes

C7_Witness ==
    /\ \E i \in DOMAIN txLog :
           /\ txLog[i].f = [kind |-> "return", val |-> Nil]
           /\ txLog[i].commitRes = ErrCommit
    /\ \E i \in DOMAIN txLog :
           /\ txLog[i].f = [kind |-> "return", val |-> Nil]
           /\ txLog[i].commitRes = Nil

\* C8: as claimed: a second call under the name of an existing constraint or
\* index returns nil with the same definition, and returns the database's
\* error with a different definition.
C8_ConflictingDefinitionSurfaces ==
    ddl.op \in {"EnsureConstraint", "EnsureIndex"}
        => /\ (ddl.existed /\ ddl.fault = "none") => ddl.ret = NoError
           /\ (ddl.nameExisted /\ ~ddl.existed /\ ddl.fault = "none")
                  => ddl.ret = ddl.dbErr /\ ddl.ret # NoError

\* C8, amended: a call under the name of an existing constraint or index
\* returns nil whatever the definition, the database's already-exists error
\* being the expected message of that name; an error with any other message is
\* returned unchanged.
C8_SameNameSwallowed ==
    ddl.op \in {"EnsureConstraint", "EnsureIndex"}
        => /\ (ddl.nameExisted /\ ddl.fault = "none")
                  => ddl.ret = NoError /\ ddl.dbErr = ddl.expectedMsg
           /\ ddl.dbErr # ddl.expectedMsg => ddl.ret = ddl.dbErr

C8_Witness ==
    /\ ddl.op = "EnsureConstraint"
    /\ ddl.nameExisted
    /\ ~ddl.existed
    /\ ddl.dbErr # NoError
    /\ ddl.ret = NoError

\* C9: EnsureForeignKey is idempotent: called again with the same arguments
\* on a table that has the foreign key it returns nil, the database's
\* already-exists error being the message expected from sourceTable, column
\* and the referenced table; an error with any other message is returned
\* unchanged.
C9_ForeignKeyIdempotent ==
    ddl.op = "EnsureForeignKey"
        => /\ (ddl.existed /\ ddl.fault = "none")
                  => ddl.ret = NoError /\ ddl.dbErr = ddl.expectedMsg
           /\ ddl.dbErr # ddl.expectedMsg => ddl.ret = ddl.dbErr

\* What does hold of the code: the statement of C9 when sourceTable is the
\* table name of the model.
C9_IdempotentOnOwnTable ==
    ddl.op = "EnsureForeignKey"
        => /\ (ddl.existed /\ ddl.fault = "none" /\ ddl.sourceTable = Relation)
                  => ddl.ret = NoError /\ ddl.dbErr = ddl.expectedMsg
           /\ ddl.dbErr # ddl.expectedMsg => ddl.ret = ddl.dbErr

\* The case of C9_IdempotentOnOwnTable: a second call on the model's own
\* table, swallowed.
C9_OwnTableCase ==
    /\ ddl.op = "EnsureForeignKey"
    /\ ddl.existed
    /\ ddl.table = <<"users", " ", "(", "id", ")">>
    /\ ddl.dbErr
           = "pq: constraint \"orders_user_id_users_id_foreign\" for relation \"orders\" already exists"
    /\ ddl.ret = NoError

\* The case C9 fails on: a second call with the same arguments, sourceTable
\* not being the model's table, returns the already-exists error.
C9_Witness ==
    /\ ddl.op = "EnsureForeignKey"
    /\ ddl.existed
    /\ ddl.fault = "none"
    /\ ddl.sourceTable # Relation
    /\ ddl.ret = ddl.dbErr
    /\ ddl.ret # NoError
====
